---- MODULE Spec2Model ----
(***************************************************************************)
(* Model of scrape_hackerrank.py: the incremental scrape of a user's       *)
(* submissions, the recovery file submissions.json and the retry loops.    *)
(*                                                                         *)
(* Strings that the program takes apart ('url|language' keys) are          *)
(* sequences of one-character strings; python dicts are sequences of       *)
(* [k, v] pairs in insertion order; python lists are sequences.            *)
(*                                                                         *)
(* The operator's <ctrl>-c is delivered while the process blocks on the    *)
(* browser, on a sleep or on file output.  The upstream site changes only  *)
(* between two runs of the program.                                        *)
(***************************************************************************)
EXTENDS Integers, Sequences, FiniteSets, TLC

\* ---------------------------------------------------------------- bounds
MaxStream == 3        \* submissions the site ever lists
PageSize == 2         \* submissions the site lists per page
MaxRuns == 3          \* runs of the program
MaxPageRetry == 1     \* 'Retrying...' rounds of one run's page loop
MaxFail == 2          \* failed attempts of one readSubmission call (Spec)
MaxAttempts == 14     \* failed attempts of one readSubmission call (SpecRead)
MaxPartLen == 1       \* characters of a url or of a language (SpecCodec)
MaxCodecLen == 2      \* records of the saved dict (SpecCodec)

\* ------------------------------------------------------- the upstream site
\* (challenge_href, language) pairs the user has submitted for
KeyA == << <<"a">>, <<"p">> >>
KeyB == << <<"b">>, <<"p">> >>
KeyC == << <<"a">>, <<"q">> >>
AllKeys == {KeyA, KeyB, KeyC}

\* the status the site shows for a submission, as its sequence of words; the
\* n-th submission of the user gets the n-th of these, in rotation.  The
\* third has the first words of the second, which are what line 272 tests.
RawStatuses ==
    << << "Accepted" >>,
       << "Terminated", "due", "to", "timeout" >>,
       << "Terminated", "due", "to", "signal" >>,
       << "Wrong", "Answer" >> >>

StatusOf(id) == RawStatuses[((id - 1) % Len(RawStatuses)) + 1]

Unbound == << >>

VARIABLES
    upstream,               \* the site's submission list, newest first
    file,                   \* submissions.json
    runs,                   \* runs started so far
    pc,                     \* position of the running process
    exc,                    \* exception in flight through the finally block
    exit,                   \* how the last run ended
    abortAt,                \* position at which the run was aborted
    pageIndex, lastPageIndex, idx, lastKey,
    oldSubmissions, newSubmissions,
    submissions, submissionsAlreadyDone, it, timeoutCount,
    sheet,                  \* rows written to the Excel file
    saveCalls, savedArg,    \* calls of saveAlreadyDone and its argument
    fileAtStart,            \* submissions.json when the run started
    examined,               \* positions of the list entries looked at
    pagesRead,              \* page indices whose list was parsed
    pageRetries,            \* 'Retrying...' rounds
    requested,              \* keys whose submission page was opened
    fetched,                \* keys whose code was read
    notReadySeen, timeoutsSeen, \* outcomes of the current readSubmission call
    workAtTry,              \* newSubmissions as returned by getAllSubmissions
    prev                    \* summary of the previous run

vars == << upstream, file, runs, pc, exc, exit, abortAt,
           pageIndex, lastPageIndex, idx, lastKey,
           oldSubmissions, newSubmissions,
           submissions, submissionsAlreadyDone, it, timeoutCount,
           sheet, saveCalls, savedArg, fileAtStart, examined, pagesRead,
           pageRetries, requested, fetched, notReadySeen, timeoutsSeen,
           workAtTry, prev >>

\* ------------------------------------------------------------ python dict
KeysOf(d) == { d[i].k : i \in 1..Len(d) }

Has(d, key) == \E i \in 1..Len(d) : d[i].k = key

Get(d, key) == d[CHOOSE i \in 1..Len(d) : d[i].k = key].v

Put(d, key, val) ==
    IF Has(d, key)
    THEN [i \in 1..Len(d) |-> IF d[i].k = key THEN [k |-> key, v |-> val] ELSE d[i]]
    ELSE Append(d, [k |-> key, v |-> val])

RECURSIVE Update(_, _)
Update(d, e) ==
    IF e = << >> THEN d
    ELSE Update(Put(d, Head(e).k, Head(e).v), Tail(e))

\* ------------------------------------------------------ key <-> file key
\* the parts put together without the separator
JoinMut(key) == key[1] \o key[2]

RECURSIVE Join(_)
Join(key) ==
    IF Len(key) = 0 THEN << >>
    ELSE IF Len(key) = 1 THEN key[1]
    ELSE key[1] \o <<"|">> \o Join(Tail(key))

\* the file key taken as the key, without the split
SplitMut(s) == << s >>

RECURSIVE SplitAt(_, _, _)
SplitAt(s, cur, acc) ==
    IF s = << >> THEN Append(acc, cur)
    ELSE IF Head(s) = "|" THEN SplitAt(Tail(s), << >>, Append(acc, cur))
    ELSE SplitAt(Tail(s), Append(cur, Head(s)), acc)

Split(s) == SplitAt(s, << >>, << >>)

\* ------------------------------------------------------------- the file
NoFile == [state |-> "absent", data |-> << >>]
PartialFile == [state |-> "partial", data |-> << >>]

RECURSIVE JoinKeys(_, _)
JoinKeys(d, acc) ==
    IF d = << >> THEN acc
    ELSE JoinKeys(Tail(d), Put(acc, Join(Head(d).k), Head(d).v))

\* only the records that have their code are written
DumpedMut(subs) ==
    [state |-> "ok",
     data |-> JoinKeys(SelectSeq(subs, LAMBDA item : Len(item.v) = 6), << >>)]

Dumped(subs) == [state |-> "ok", data |-> JoinKeys(subs, << >>)]

\* a record counts as done whether or not it has its code
IsDoneMut(val) == Len(val) >= 5

IsDone(val) == Len(val) = 6

RECURSIVE Partition(_, _, _)
Partition(d, done, todo) ==
    IF d = << >> THEN << done, todo >>
    ELSE IF IsDone(Head(d).v)
         THEN Partition(Tail(d), Put(done, Split(Head(d).k), Head(d).v), todo)
         ELSE Partition(Tail(d), done, Put(todo, Split(Head(d).k), Head(d).v))

getAlreadyDone(f) == Partition(f.data, << >>, << >>)

\* ------------------------------------------------------ the site's pages
Min(a, b) == IF a < b THEN a ELSE b

NumPages == (Len(upstream) + PageSize - 1) \div PageSize

PageEntries(n) ==
    SubSeq(upstream, (n - 1) * PageSize + 1, Min(n * PageSize, Len(upstream)))

PosOf(n, i) == (n - 1) * PageSize + i

PageOf(p) == (p + PageSize - 1) \div PageSize

\* str.startswith, word by word
StartsWith(s, prefix) ==
    /\ Len(s) >= Len(prefix)
    /\ SubSeq(s, 1, Len(prefix)) = prefix

\* the status is stored as it is read
NormalizeMut(status) == status

Normalize(status) ==
    IF StartsWith(status, << "Terminated", "due" >>) THEN << "Timeout" >>
    ELSE status

PointsOf(status) == IF status = << "Accepted" >> THEN 10 ELSE 0

Summary(e) ==
    << e.key[1], e.id, Normalize(e.status), PointsOf(e.status),
       [path |-> "database", id |-> e.id] >>

\* the submission page: the code lines and the 'theme' text
CodeOf(href) == << href.id, href.id >>

ThemeOf(key) == IF key[1] = <<"b">> THEN << >> ELSE <<"T">> \o key[1]

\* extend(code) instead of extend([code])
CompletedMut(key, val) ==
    LET ext == val \o CodeOf(val[Len(val)])
    IN  IF ThemeOf(key) # << >> THEN [ext EXCEPT ![1] = ThemeOf(key)] ELSE ext

Completed(key, val) ==
    LET ext == val \o << CodeOf(val[Len(val)]) >>
    IN  IF ThemeOf(key) # << >> THEN [ext EXCEPT ![1] = ThemeOf(key)] ELSE ext

\* the finally block without line 331
FinallyMergeMut(subs, done) == subs

FinallyMerge(subs, done) ==
    IF done # << >> THEN Update(subs, done) ELSE subs

\* ----------------------------------------------------------------- Init
NoPrev == [kind |-> "other", discovered |-> {}, completed |-> {},
           unchanged |-> FALSE]

Init ==
    /\ upstream = << >>
    /\ file = NoFile
    /\ runs = 0
    /\ pc = "idle"
    /\ exc = "none"
    /\ exit = "none"
    /\ abortAt = "none"
    /\ pageIndex = 1
    /\ lastPageIndex = 1
    /\ idx = 1
    /\ lastKey = Unbound
    /\ oldSubmissions = << >>
    /\ newSubmissions = << >>
    /\ submissions = << >>
    /\ submissionsAlreadyDone = << >>
    /\ it = 1
    /\ timeoutCount = 0
    /\ sheet = << >>
    /\ saveCalls = 0
    /\ savedArg = << >>
    /\ fileAtStart = NoFile
    /\ examined = << >>
    /\ pagesRead = << >>
    /\ pageRetries = 0
    /\ requested = {}
    /\ fetched = {}
    /\ notReadySeen = 0
    /\ timeoutsSeen = 0
    /\ workAtTry = << >>
    /\ prev = NoPrev

runLocal == << pageIndex, lastPageIndex, idx, lastKey,
               oldSubmissions, newSubmissions,
               submissions, submissionsAlreadyDone, it, timeoutCount >>

history == << sheet, saveCalls, savedArg, fileAtStart, examined, pagesRead,
              pageRetries, requested, fetched, notReadySeen, timeoutsSeen,
              workAtTry >>

\* ------------------------------------------------------------ the user
\* a new submission appears at the head of the site's list
Submit(key) ==
    /\ pc = "idle"
    /\ Len(upstream) < MaxStream
    /\ runs < MaxRuns
    /\ upstream' = << [id |-> Len(upstream) + 1, key |-> key,
                       status |-> StatusOf(Len(upstream) + 1)] >> \o upstream
    /\ prev' = [prev EXCEPT !.unchanged = FALSE]
    /\ UNCHANGED << file, runs, pc, exc, exit, abortAt, runLocal, history >>

\* ----------------------------------------------------------------- main
Start(usr, pwd) ==
    /\ pc = "idle"
    /\ runs < MaxRuns
    /\ runs' = runs + 1
    /\ fileAtStart' = file
    /\ IF usr /\ pwd
       THEN pc' = "login" /\ exit' = "none"
       ELSE pc' = "ended" /\ exit' = "config"
    /\ UNCHANGED << upstream, file, exc, abortAt, runLocal, sheet, saveCalls,
                    savedArg, examined, pagesRead, pageRetries, requested,
                    fetched, notReadySeen, timeoutsSeen, workAtTry, prev >>

\* line 341 or an uncaught exception: the process and its memory are gone
Quit ==
    /\ pc = "ended"
    /\ pc' = "idle"
    /\ prev' = IF exit = "normal" \/ (abortAt = "fetch" /\ exit # "config")
                THEN [kind |-> IF exit = "normal" THEN "normal" ELSE "fetch",
                      discovered |-> KeysOf(workAtTry),
                      completed |-> fetched,
                      unchanged |-> TRUE]
                ELSE NoPrev
    /\ exc' = "none" /\ exit' = "none" /\ abortAt' = "none"
    /\ pageIndex' = 1 /\ lastPageIndex' = 1 /\ idx' = 1 /\ lastKey' = Unbound
    /\ oldSubmissions' = << >> /\ newSubmissions' = << >>
    /\ submissions' = << >> /\ submissionsAlreadyDone' = << >>
    /\ it' = 1 /\ timeoutCount' = 0
    /\ sheet' = << >> /\ saveCalls' = 0 /\ savedArg' = << >>
    /\ fileAtStart' = NoFile
    /\ examined' = << >> /\ pagesRead' = << >> /\ pageRetries' = 0
    /\ requested' = {} /\ fetched' = {}
    /\ notReadySeen' = 0 /\ timeoutsSeen' = 0 /\ workAtTry' = << >>
    /\ UNCHANGED << upstream, file, runs >>

\* the process ends without reaching the finally block of main
EndOutsideTry(kind, at) ==
    /\ pc' = "ended"
    /\ exit' = kind
    /\ abortAt' = at

site_login(ok) ==
    /\ pc = "login"
    /\ IF ok
       THEN pc' = "load" /\ UNCHANGED << exit, abortAt >>
       ELSE EndOutsideTry("error", "outside")
    /\ UNCHANGED << upstream, file, runs, exc, runLocal, history, prev >>

\* ---------------------------------------------------- getAllSubmissions
\* lines 222-223: the page counters and the load of submissions.json
\* an unreadable file taken for an empty one
LoadAlreadyDoneMut ==
    /\ pc = "load"
    /\ oldSubmissions' = getAlreadyDone(file)[1]
    /\ newSubmissions' = getAlreadyDone(file)[2]
    /\ pc' = "page"
    /\ pageIndex' = 1
    /\ lastPageIndex' = 1
    /\ UNCHANGED << upstream, file, runs, exc, exit, abortAt, idx, lastKey,
                    submissions, submissionsAlreadyDone, it, timeoutCount,
                    history, prev >>

LoadAlreadyDone ==
    /\ pc = "load"
    /\ IF file.state = "partial"
       THEN /\ EndOutsideTry("error", "outside")
            /\ UNCHANGED << oldSubmissions, newSubmissions >>
       ELSE /\ oldSubmissions' = getAlreadyDone(file)[1]
            /\ newSubmissions' = getAlreadyDone(file)[2]
            /\ pc' = "page"
            /\ UNCHANGED << exit, abortAt >>
    /\ pageIndex' = 1
    /\ lastPageIndex' = 1
    /\ UNCHANGED << upstream, file, runs, exc, idx, lastKey,
                    submissions, submissionsAlreadyDone, it, timeoutCount,
                    history, prev >>

\* line 279: the two dicts go to main, which enters its try block
ReturnToMain ==
    /\ pc' = "fetch"
    /\ submissions' = newSubmissions'
    /\ submissionsAlreadyDone' = oldSubmissions
    /\ workAtTry' = newSubmissions'
    /\ it' = 1

\* the retry goes on to the next page
PageNotReadyMut ==
    /\ pc = "page"
    /\ pageIndex <= lastPageIndex
    /\ pageRetries < MaxPageRetry
    /\ pageRetries' = pageRetries + 1
    /\ pageIndex' = pageIndex + 1
    /\ UNCHANGED << upstream, file, runs, pc, exc, exit, abortAt,
                    lastPageIndex, idx, lastKey, oldSubmissions,
                    newSubmissions, submissions, submissionsAlreadyDone, it,
                    timeoutCount, sheet, saveCalls, savedArg, fileAtStart,
                    examined, pagesRead, requested, fetched, notReadySeen,
                    timeoutsSeen, workAtTry, prev >>

\* lines 232-239: the list or the pagination is not there yet
PageNotReady ==
    /\ pc = "page"
    /\ pageIndex <= lastPageIndex
    /\ pageRetries < MaxPageRetry
    /\ pageRetries' = pageRetries + 1
    /\ UNCHANGED << upstream, file, runs, pc, exc, exit, abortAt,
                    runLocal, sheet, saveCalls, savedArg, fileAtStart,
                    examined, pagesRead, requested, fetched, notReadySeen,
                    timeoutsSeen, workAtTry, prev >>

\* the last page is left out
PageReadyMut ==
    /\ pc = "page"
    /\ pageIndex <= lastPageIndex
    /\ lastPageIndex' = IF pageIndex = 1 THEN NumPages - 1 ELSE lastPageIndex
    /\ pagesRead' = Append(pagesRead, pageIndex)
    /\ pageRetries' = 0
    /\ idx' = 1
    /\ pc' = "entry"
    /\ UNCHANGED << upstream, file, runs, exc, exit, abortAt,
                    pageIndex, lastKey, oldSubmissions, newSubmissions,
                    submissions, submissionsAlreadyDone, it, timeoutCount,
                    sheet, saveCalls, savedArg, fileAtStart, examined,
                    requested, fetched, notReadySeen,
                    timeoutsSeen, workAtTry, prev >>

\* lines 224-245: the page is there; page 1 tells the number of pages
PageReady ==
    /\ pc = "page"
    /\ pageIndex <= lastPageIndex
    /\ lastPageIndex' = IF pageIndex = 1 THEN NumPages ELSE lastPageIndex
    /\ pagesRead' = Append(pagesRead, pageIndex)
    /\ pageRetries' = 0
    /\ idx' = 1
    /\ pc' = "entry"
    /\ UNCHANGED << upstream, file, runs, exc, exit, abortAt,
                    pageIndex, lastKey, oldSubmissions, newSubmissions,
                    submissions, submissionsAlreadyDone, it, timeoutCount,
                    sheet, saveCalls, savedArg, fileAtStart, examined,
                    requested, fetched, notReadySeen,
                    timeoutsSeen, workAtTry, prev >>

\* line 224: the while condition fails
PagesExhausted ==
    /\ pc = "page"
    /\ pageIndex > lastPageIndex
    /\ newSubmissions' = newSubmissions
    /\ ReturnToMain
    /\ UNCHANGED << upstream, file, runs, exc, exit, abortAt,
                    pageIndex, lastPageIndex, idx, lastKey, oldSubmissions,
                    timeoutCount, sheet, saveCalls, savedArg, fileAtStart,
                    examined, pagesRead, pageRetries, requested, fetched,
                    notReadySeen, timeoutsSeen, prev >>

\* the break of line 265 without the break of line 277
StopAtKnownKeyMut ==
    /\ newSubmissions' = newSubmissions
    /\ pageIndex' = pageIndex + 1
    /\ pc' = "page"
    /\ UNCHANGED << submissions, submissionsAlreadyDone, workAtTry, it >>

\* lines 265-266 and 276-277: both loops are left on a known key
StopAtKnownKey ==
    /\ newSubmissions' = newSubmissions
    /\ pageIndex' = pageIndex + 1
    /\ ReturnToMain

\* lines 247-273: one entry of the page
EntryStep ==
    /\ pc = "entry"
    /\ idx <= Len(PageEntries(pageIndex))
    /\ LET e   == PageEntries(pageIndex)[idx]
           key == e.key
       IN  /\ examined' = Append(examined, PosOf(pageIndex, idx))
           /\ lastKey' = key
           /\ IF Has(oldSubmissions, key)
              THEN /\ StopAtKnownKey
                   /\ UNCHANGED idx
              ELSE /\ newSubmissions' =
                          IF ~Has(newSubmissions, key)
                          THEN Put(newSubmissions, key, Summary(e))
                          ELSE newSubmissions
                   /\ idx' = idx + 1
                   /\ UNCHANGED << pc, pageIndex, submissions,
                                   submissionsAlreadyDone, workAtTry, it >>
    /\ UNCHANGED << upstream, file, runs, exc, exit, abortAt,
                    lastPageIndex, oldSubmissions, timeoutCount,
                    sheet, saveCalls, savedArg, fileAtStart, pagesRead,
                    pageRetries, requested, fetched, notReadySeen,
                    timeoutsSeen, prev >>

\* lines 274-277: the page has no further entry
PageEnd ==
    /\ pc = "entry"
    /\ idx > Len(PageEntries(pageIndex))
    /\ pageIndex' = pageIndex + 1
    /\ IF lastKey = Unbound
       THEN /\ EndOutsideTry("error", "outside")
            /\ UNCHANGED << newSubmissions, submissions,
                            submissionsAlreadyDone, workAtTry, it >>
       ELSE IF Has(oldSubmissions, lastKey)
       THEN /\ newSubmissions' = newSubmissions
            /\ ReturnToMain
            /\ UNCHANGED << exit, abortAt >>
       ELSE /\ pc' = "page"
            /\ UNCHANGED << exit, abortAt, newSubmissions, submissions,
                            submissionsAlreadyDone, workAtTry, it >>
    /\ UNCHANGED << upstream, file, runs, exc,
                    lastPageIndex, idx, lastKey, oldSubmissions, timeoutCount,
                    sheet, saveCalls, savedArg, fileAtStart, examined,
                    pagesRead, pageRetries, requested, fetched, notReadySeen,
                    timeoutsSeen, prev >>

\* ---------------------------------------------------------- readSubmission
\* lines 318-322 with one round of the retry loop of lines 137-176
ReadAttempt(cap) ==
    /\ pc = "fetch"
    /\ it <= Len(submissions)
    /\ LET key == submissions[it].k
           val == submissions[it].v
       IN  /\ requested' = requested \cup {key}
           /\ \/ /\ submissions' = Put(submissions, key, Completed(key, val))
                 /\ fetched' = fetched \cup {key}
                 /\ it' = it + 1
                 /\ timeoutCount' = 0
                 /\ notReadySeen' = 0
                 /\ timeoutsSeen' = 0
                 /\ UNCHANGED << pc, exc, abortAt >>
              \/ /\ timeoutCount < cap
                 /\ timeoutCount' = timeoutCount + 1
                 /\ notReadySeen' = notReadySeen + 1
                 /\ IF timeoutCount' = 2
                    THEN pc' = "finally" /\ exc' = "error" /\ abortAt' = "fetch"
                    ELSE UNCHANGED << pc, exc, abortAt >>
                 /\ UNCHANGED << submissions, fetched, it, timeoutsSeen >>
              \/ /\ timeoutCount < cap
                 /\ timeoutCount' = timeoutCount + 1
                 /\ timeoutsSeen' = timeoutsSeen + 1
                 /\ IF timeoutCount' = 10
                    THEN pc' = "finally" /\ exc' = "error" /\ abortAt' = "fetch"
                    ELSE UNCHANGED << pc, exc, abortAt >>
                 /\ UNCHANGED << submissions, fetched, it, notReadySeen >>
    /\ UNCHANGED << upstream, file, runs, exit,
                    pageIndex, lastPageIndex, idx, lastKey,
                    oldSubmissions, newSubmissions, submissionsAlreadyDone,
                    sheet, saveCalls, savedArg, fileAtStart, examined,
                    pagesRead, pageRetries, workAtTry, prev >>

\* ------------------------------------------------------- main, continued
\* lines 324-325: every new submission has its code
\* the merge of line 324 before the loop of lines 318-322 is through
MergeAlreadyDoneMut ==
    /\ pc = "fetch"
    /\ submissions' = Update(submissions, submissionsAlreadyDone)
    /\ submissionsAlreadyDone' = << >>
    /\ pc' = "excel"
    /\ UNCHANGED << upstream, file, runs, exc, exit, abortAt,
                    pageIndex, lastPageIndex, idx, lastKey,
                    oldSubmissions, newSubmissions, it, timeoutCount,
                    history, prev >>

MergeAlreadyDone ==
    /\ pc = "fetch"
    /\ it > Len(submissions)
    /\ submissions' = Update(submissions, submissionsAlreadyDone)
    /\ submissionsAlreadyDone' = << >>
    /\ pc' = "excel"
    /\ UNCHANGED << upstream, file, runs, exc, exit, abortAt,
                    pageIndex, lastPageIndex, idx, lastKey,
                    oldSubmissions, newSubmissions, it, timeoutCount,
                    history, prev >>

\* str.upper and the order of the characters the model uses
Upper(c) ==
    CASE c = "a" -> "A" [] c = "b" -> "B" [] c = "p" -> "P" [] c = "q" -> "Q"
      [] OTHER -> c

Ord(c) ==
    CASE c = "A" -> 65 [] c = "B" -> 66 [] c = "P" -> 80 [] c = "Q" -> 81
      [] c = "T" -> 84 [] c = "|" -> 124 [] OTHER -> 0

RECURSIVE TextLess(_, _)
TextLess(s, t) ==
    IF t = << >> THEN FALSE
    ELSE IF s = << >> THEN TRUE
    ELSE IF Ord(Upper(Head(s))) # Ord(Upper(Head(t)))
         THEN Ord(Upper(Head(s))) < Ord(Upper(Head(t)))
         ELSE TextLess(Tail(s), Tail(t))

\* sorted(submissions.items(), key=lambda x: x[1][0].upper()), a stable sort
RECURSIVE InsertSorted(_, _)
InsertSorted(sorted, item) ==
    IF sorted = << >> THEN << item >>
    ELSE IF TextLess(item.v[1], Head(sorted).v[1])
         THEN << item >> \o sorted
         ELSE << Head(sorted) >> \o InsertSorted(Tail(sorted), item)

RECURSIVE SortedItems(_, _)
SortedItems(d, acc) ==
    IF d = << >> THEN acc
    ELSE SortedItems(Tail(d), InsertSorted(acc, Head(d)))

\* every record gets a row, whatever its status
RowsMut(subs) == SortedItems(subs, << >>)

Rows(subs) ==
    SelectSeq(SortedItems(subs, << >>),
              LAMBDA item : item.v[3] = << "Accepted" >>)

\* lines 326-327; the workbook cannot be saved while it is open in Excel
writeToExcel(ok) ==
    /\ pc = "excel"
    /\ IF ok /\ \A i \in 1..Len(submissions) : Len(submissions[i].v) = 6
       THEN sheet' = Rows(submissions) /\ UNCHANGED << exc, abortAt >>
       ELSE exc' = "error" /\ abortAt' = "excel" /\ UNCHANGED sheet
    /\ pc' = "finally"
    /\ UNCHANGED << upstream, file, runs, exit, runLocal,
                    saveCalls, savedArg, fileAtStart, examined, pagesRead,
                    pageRetries, requested, fetched, notReadySeen,
                    timeoutsSeen, workAtTry, prev >>

\* lines 331-332 and 184: the merge, the call and the open(.., 'w')
SaveOpen ==
    /\ pc = "finally"
    /\ submissions' = FinallyMerge(submissions, submissionsAlreadyDone)
    /\ savedArg' = submissions'
    /\ saveCalls' = saveCalls + 1
    /\ file' = PartialFile
    /\ pc' = "dump"
    /\ UNCHANGED << upstream, runs, exc, exit, abortAt,
                    pageIndex, lastPageIndex, idx, lastKey,
                    oldSubmissions, newSubmissions, submissionsAlreadyDone,
                    it, timeoutCount, sheet, fileAtStart, examined, pagesRead,
                    pageRetries, requested, fetched, notReadySeen,
                    timeoutsSeen, workAtTry, prev >>

\* lines 187, 334, 338-341: json.dump completes, the process ends
SaveDump ==
    /\ pc = "dump"
    /\ file' = Dumped(submissions)
    /\ pc' = "ended"
    /\ exit' = IF exc = "none" THEN "normal" ELSE exc
    /\ UNCHANGED << upstream, runs, exc, abortAt, runLocal, history, prev >>

\* ---------------------------------------------------------------- <ctrl>-c
\* lines 311, 314: KeyboardInterrupt outside the try block of main
InterruptOutsideTry ==
    /\ pc \in {"login", "load", "page", "entry"}
    /\ EndOutsideTry("interrupt", "outside")
    /\ UNCHANGED << upstream, file, runs, exc, runLocal, history, prev >>

\* the detail loop and the output outside the try block
InterruptInTryMut ==
    /\ pc \in {"fetch", "excel"}
    /\ EndOutsideTry("interrupt", pc)
    /\ UNCHANGED << upstream, file, runs, exc, runLocal, history, prev >>

\* lines 315-328: KeyboardInterrupt inside the try block of main
InterruptInTry ==
    /\ pc \in {"fetch", "excel"}
    /\ exc' = "interrupt"
    /\ abortAt' = pc
    /\ pc' = "finally"
    /\ UNCHANGED << upstream, file, runs, exit, runLocal, history, prev >>

\* lines 184-187: KeyboardInterrupt while json.dump writes
InterruptInSave ==
    /\ pc = "dump"
    /\ EndOutsideTry("interrupt", IF abortAt = "none" THEN "save" ELSE abortAt)
    /\ UNCHANGED << upstream, file, runs, exc, runLocal, history, prev >>

\* ------------------------------------------------------------------- Spec
Next ==
    \/ \E key \in AllKeys : Submit(key)
    \/ \E usr \in BOOLEAN, pwd \in BOOLEAN : Start(usr, pwd)
    \/ Quit
    \/ \E ok \in BOOLEAN : site_login(ok)
    \/ LoadAlreadyDone
    \/ PageNotReady
    \/ PageReady
    \/ PagesExhausted
    \/ EntryStep
    \/ PageEnd
    \/ ReadAttempt(MaxFail)
    \/ MergeAlreadyDone
    \/ \E ok \in BOOLEAN : writeToExcel(ok)
    \/ SaveOpen
    \/ SaveDump
    \/ InterruptOutsideTry
    \/ InterruptInTry
    \/ InterruptInSave

Spec == Init /\ [][Next]_vars

\* ---------------------------------------------- readSubmission on its own
\* main has just entered its try block with one new submission to read
InitRead ==
    /\ upstream = << [id |-> 1, key |-> KeyA, status |-> StatusOf(1)] >>
    /\ file = NoFile
    /\ runs = 1
    /\ pc = "fetch"
    /\ exc = "none"
    /\ exit = "none"
    /\ abortAt = "none"
    /\ pageIndex = 2
    /\ lastPageIndex = 1
    /\ idx = 2
    /\ lastKey = KeyA
    /\ oldSubmissions = << >>
    /\ newSubmissions = << [k |-> KeyA, v |-> Summary(upstream[1])] >>
    /\ submissions = newSubmissions
    /\ submissionsAlreadyDone = << >>
    /\ it = 1
    /\ timeoutCount = 0
    /\ sheet = << >>
    /\ saveCalls = 0
    /\ savedArg = << >>
    /\ fileAtStart = NoFile
    /\ examined = << 1 >>
    /\ pagesRead = << 1 >>
    /\ pageRetries = 0
    /\ requested = {}
    /\ fetched = {}
    /\ notReadySeen = 0
    /\ timeoutsSeen = 0
    /\ workAtTry = newSubmissions
    /\ prev = NoPrev

NextRead == ReadAttempt(MaxAttempts)

SpecRead == InitRead /\ [][NextRead]_vars

\* ------------------------------------------ saveAlreadyDone on its own
\* urls and language names, the separator among their characters
CodecParts == UNION { [1..n -> {"a", "|"}] : n \in 0..MaxPartLen }

CodecKeys == { << c, l >> : c \in CodecParts, l \in CodecParts }

\* the record of the i-th key of the dict, with its code
CodecRecord(i, key) ==
    Completed(key, Summary([id |-> i, key |-> key, status |-> StatusOf(i)]))

\* a run at the finally block of main after a writeToExcel, with any dict of
\* complete records
InitCodec ==
    /\ \E n \in 1..MaxCodecLen :
          \E ks \in [1..n -> CodecKeys] :
             /\ \A i, j \in 1..n : i # j => ks[i] # ks[j]
             /\ submissions =
                   [i \in 1..n |-> [k |-> ks[i], v |-> CodecRecord(i, ks[i])]]
    /\ upstream = << >>
    /\ file = NoFile
    /\ runs = 1
    /\ pc = "finally"
    /\ exc = "none"
    /\ exit = "none"
    /\ abortAt = "none"
    /\ pageIndex = 2
    /\ lastPageIndex = 1
    /\ idx = 1
    /\ lastKey = submissions[Len(submissions)].k
    /\ oldSubmissions = << >>
    /\ newSubmissions = << >>
    /\ submissionsAlreadyDone = << >>
    /\ it = Len(submissions) + 1
    /\ timeoutCount = 0
    /\ sheet = Rows(submissions)
    /\ saveCalls = 0
    /\ savedArg = << >>
    /\ fileAtStart = NoFile
    /\ examined = << >>
    /\ pagesRead = << 1 >>
    /\ pageRetries = 0
    /\ requested = KeysOf(submissions)
    /\ fetched = KeysOf(submissions)
    /\ notReadySeen = 0
    /\ timeoutsSeen = 0
    /\ workAtTry = << >>
    /\ prev = NoPrev

NextCodec == SaveOpen \/ SaveDump

SpecCodec == InitCodec /\ [][NextCodec]_vars

\* ================================================================ claims
InTry == pc \in {"fetch", "excel", "finally", "dump"}

Running == pc \notin {"idle", "ended"}

LensOf(d) == { Len(d[i].v) : i \in 1..Len(d) }

FetchAborted == saveCalls = 1 /\ abortAt = "fetch" /\ exc = "error"

\* C1 as stated: after a fatal error in the detail loop the mapping given to
\* saveAlreadyDone holds the done-set and the completed records only.
C1_SavedOnlyCompleted ==
    FetchAborted => KeysOf(savedArg) = KeysOf(oldSubmissions) \cup fetched

\* C1, amended: after a fatal error in the detail loop that completed k of
\* the n working-set records, the mapping given to saveAlreadyDone is the
\* done-set D merged with all n records: the k completed ones with 6 fields
\* and the n-k unread ones unchanged, as 5-field summary records.
C1_SavedAllOfWorkingSet ==
    FetchAborted =>
        /\ KeysOf(savedArg) = KeysOf(oldSubmissions) \cup KeysOf(workAtTry)
        /\ fetched \subseteq KeysOf(workAtTry)
        /\ fetched # KeysOf(workAtTry)
        /\ \A key \in KeysOf(oldSubmissions) :
               Get(savedArg, key) = Get(oldSubmissions, key)
        /\ \A key \in fetched :
               /\ Len(Get(savedArg, key)) = 6
               /\ SubSeq(Get(savedArg, key), 2, 5) = SubSeq(Get(workAtTry, key), 2, 5)
        /\ \A key \in KeysOf(workAtTry) \ fetched :
               /\ Get(savedArg, key) = Get(workAtTry, key)
               /\ Len(Get(savedArg, key)) = 5

C1_Witness ==
    /\ FetchAborted
    /\ oldSubmissions # << >>
    /\ fetched # {}
    /\ Len(workAtTry) >= 2

\* C2 as stated: every record in submissions.json and every record given to
\* saveAlreadyDone has 6 fields.
C2_OnlyCompleteStored ==
    /\ LensOf(file.data) \subseteq {6}
    /\ LensOf(savedArg) \subseteq {6}

\* C2, amended: every record in submissions.json and every record given to
\* saveAlreadyDone has 5 or 6 fields; 5-field records are given to it only by
\* a run whose detail loop was cut short, and then exactly for the keys whose
\* code was not read; a run whose detail loop finished saves 6-field records
\* only.
C2_StoredStages ==
    /\ LensOf(file.data) \subseteq {5, 6}
    /\ LensOf(savedArg) \subseteq {5, 6}
    /\ (saveCalls = 1 /\ abortAt # "fetch") => LensOf(savedArg) \subseteq {6}
    /\ (saveCalls = 1 /\ abortAt = "fetch") =>
           { key \in KeysOf(savedArg) : Len(Get(savedArg, key)) = 5 }
               = KeysOf(workAtTry) \ fetched

C2_Witness ==
    /\ pc = "ended"
    /\ file.state = "ok"
    /\ 5 \in LensOf(file.data)
    /\ 6 \in LensOf(file.data)

\* C3 as stated: a run that passed the credential check calls
\* saveAlreadyDone exactly once before the process ends.
C3_SavedOnceAlways ==
    (pc = "ended" /\ exit \notin {"none", "config"}) => saveCalls = 1

\* C3, amended: a run calls saveAlreadyDone at most once; a run in which
\* getAllSubmissions returned (main entered its try block) calls it exactly
\* once before the process ends, on normal completion, on an error and on an
\* interrupt during the detail loop or the spreadsheet output; a run ended by
\* an error or an interrupt during login or pagination never calls it.
C3_SavedOnceInTry ==
    /\ saveCalls <= 1
    /\ (pc = "ended" /\ exit \notin {"none", "config"}) =>
           (saveCalls = 1 <=> abortAt # "outside")
    /\ (pc = "ended" /\ exit = "normal") => abortAt = "none"

C3_Witness ==
    /\ pc = "ended"
    /\ exit = "interrupt"
    /\ abortAt \in {"fetch", "excel"}
    /\ saveCalls = 1

\* C4: when a run has ended, every 6-field record that submissions.json held
\* when the run started is still in the file, with the same value.
C4_NoRegression ==
    pc = "ended" =>
        \A i \in 1..Len(fileAtStart.data) :
            Len(fileAtStart.data[i].v) = 6 =>
                /\ file.state = "ok"
                /\ Has(file.data, fileAtStart.data[i].k)
                /\ Get(file.data, fileAtStart.data[i].k) = fileAtStart.data[i].v

\* C5: while a run is under way, no list entry after an entry whose key is in
\* the done-set has been looked at, and no page after that entry's page has
\* been read.
C5_BoundaryStop ==
    Running =>
        \A p \in 1..Len(upstream) :
            Has(oldSubmissions, upstream[p].key) =>
                /\ \A i \in 1..Len(examined) : examined[i] <= p
                /\ \A i \in 1..Len(pagesRead) : pagesRead[i] <= PageOf(p)

C5_Witness ==
    /\ pc = "fetch"
    /\ Len(upstream) = MaxStream
    /\ Len(upstream) > PageSize
    /\ Has(oldSubmissions, upstream[1].key)
    /\ examined = << 1 >>

\* C6: after pagination every key among the entries looked at that is not in
\* the done-set is in the working set with the timestamp, status, score and
\* locator of its first occurrence in the list.
C6_FirstOccurrenceWins ==
    InTry =>
        \A i \in 1..Len(examined) :
            LET key   == upstream[examined[i]].key
                first == CHOOSE p \in 1..Len(upstream) :
                             /\ upstream[p].key = key
                             /\ \A q \in 1..(p - 1) : upstream[q].key # key
            IN  ~Has(oldSubmissions, key) =>
                    /\ Has(workAtTry, key)
                    /\ SubSeq(Get(workAtTry, key), 2, 5)
                           = SubSeq(Summary(upstream[first]), 2, 5)

\* C7: in a run that follows a normally completed run over an unchanged list,
\* only the first entry of page 1 is looked at, the working set stays empty,
\* no submission page is opened, and the file it saves equals the file the
\* first run saved.
C7_RerunIdempotent ==
    (prev.kind = "normal" /\ prev.unchanged) =>
        /\ \A i \in 1..Len(examined) : i = 1 /\ examined[i] = 1
        /\ \A i \in 1..Len(pagesRead) : i = 1 /\ pagesRead[i] = 1
        /\ newSubmissions = << >>
        /\ submissions \in {<< >>, oldSubmissions}
        /\ requested = {}
        /\ InTry => examined = << 1 >>
        /\ (pc = "ended" /\ saveCalls = 1 /\ file.state = "ok") =>
               file = fileAtStart

C7_Witness ==
    /\ prev.kind = "normal"
    /\ prev.unchanged
    /\ pc = "ended"
    /\ exit = "normal"
    /\ Len(file.data) >= 2
    /\ Len(upstream) > Len(examined)

\* C8: in a run that follows a run aborted in the detail loop, over an
\* unchanged list, no submission page is opened for a key whose code the
\* first run had read, and when the run completes normally the file holds a
\* 6-field record for every key of the first run's working set.
C8_Recovery ==
    (prev.kind = "fetch" /\ prev.unchanged) =>
        /\ requested \cap prev.completed = {}
        /\ (pc = "ended" /\ exit = "normal") =>
               /\ file.state = "ok"
               /\ \A key \in prev.discovered :
                      /\ Has(file.data, Join(key))
                      /\ Len(Get(file.data, Join(key))) = 6

C8_Witness ==
    /\ prev.kind = "fetch"
    /\ prev.unchanged
    /\ pc = "ended"
    /\ exit = "normal"
    /\ prev.completed # {}
    /\ prev.discovered \ prev.completed # {}
    /\ requested = prev.discovered \ prev.completed

\* C9: within one readSubmission call at most 2 not-ready outcomes are
\* followed by another attempt.
C9_NotReadyBound ==
    (pc = "fetch" /\ it = 1) => notReadySeen <= 2

\* C10: within one readSubmission call at most 10 attempts time out.
C10_TimeoutBound ==
    timeoutsSeen <= 10

\* what getAlreadyDone has just returned: the load is over, no page was asked for
JustLoaded == pc = "page" /\ pagesRead = << >> /\ pageRetries = 0

\* C11: getAlreadyDone returns a done-set and a pending-set with disjoint key
\* sets whose union is the set of the persisted keys; the done-set holds
\* exactly the persisted records of 6 fields and the pending-set exactly those
\* without the code field; both are empty when there is no file.
C11_LoadPartition ==
    JustLoaded =>
        LET d == fileAtStart.data
        IN /\ KeysOf(oldSubmissions) \cap KeysOf(newSubmissions) = {}
           /\ KeysOf(oldSubmissions) \cup KeysOf(newSubmissions)
                  = { Split(d[i].k) : i \in 1..Len(d) }
           /\ Len(oldSubmissions) + Len(newSubmissions) = Len(d)
           /\ \A i \in 1..Len(d) :
                  /\ Len(d[i].v) = 6 =>
                        /\ Has(oldSubmissions, Split(d[i].k))
                        /\ Get(oldSubmissions, Split(d[i].k)) = d[i].v
                  /\ Len(d[i].v) = 5 =>
                        /\ Has(newSubmissions, Split(d[i].k))
                        /\ Get(newSubmissions, Split(d[i].k)) = d[i].v
           /\ LensOf(oldSubmissions) \subseteq {6}
           /\ LensOf(newSubmissions) \subseteq {5}
           /\ fileAtStart = NoFile =>
                  oldSubmissions = << >> /\ newSubmissions = << >>

\* a load of a file that holds records of both stages
C11_Witness ==
    /\ JustLoaded
    /\ oldSubmissions # << >>
    /\ newSubmissions # << >>
    /\ LensOf(fileAtStart.data) = {5, 6}

\* C12: wherever the process can be interrupted or fail, the file holds the
\* complete mapping of the previous save (what the run found at its start) or
\* the complete mapping of the current save, never an empty or partly
\* written mapping.
C12_AtomicSave ==
    pc # "idle" =>
        /\ file.state # "partial"
        /\ \/ file = fileAtStart
           \/ saveCalls = 1 /\ file = Dumped(savedArg)

\* the entry of the list that a stored record was made from
EntryOf(rec) ==
    upstream[CHOOSE p \in 1..Len(upstream) : upstream[p].id = rec[2]]

TimeoutStatus == << "Terminated", "due", "to", "timeout" >>

\* C13, as stated: a record made from an entry whose raw status is
\* "Terminated due to timeout" has the status "Timeout", and the record of
\* every other entry has the raw status of its entry.
C13_OnlyTimeoutNormalized ==
    \A i \in 1..Len(newSubmissions) :
        LET rec == newSubmissions[i].v
        IN rec[3] = IF EntryOf(rec).status = TimeoutStatus
                    THEN << "Timeout" >>
                    ELSE EntryOf(rec).status

\* C13, amended: a record made from an entry whose raw status starts with
\* "Terminated due" has the status "Timeout", and the record of every other
\* entry has the raw status of its entry.
C13_PrefixNormalized ==
    \A i \in 1..Len(newSubmissions) :
        LET rec == newSubmissions[i].v
            raw == EntryOf(rec).status
        IN rec[3] = IF Len(raw) >= 2 /\ raw[1] = "Terminated" /\ raw[2] = "due"
                    THEN << "Timeout" >>
                    ELSE raw

\* the working set holds a normalized timeout and a status kept as it was
C13_Witness ==
    /\ pc = "fetch"
    /\ \E i \in 1..Len(newSubmissions) :
          /\ newSubmissions[i].v[3] = << "Timeout" >>
          /\ EntryOf(newSubmissions[i].v).status = TimeoutStatus
    /\ \E i \in 1..Len(newSubmissions) :
          newSubmissions[i].v[3] = << "Accepted" >>

IsAccepted(val) == val[3] = << "Accepted" >>

\* C14: after a run that completes normally the sheet has exactly one row for
\* each record of the merged mapping whose status is Accepted and no other
\* row, and every record that is not accepted is in the saved mapping and in
\* the file.
C14_OutputFiltering ==
    (pc = "ended" /\ exit = "normal") =>
        /\ KeysOf(sheet) = { k \in KeysOf(submissions) :
                                IsAccepted(Get(submissions, k)) }
        /\ Cardinality(KeysOf(sheet)) = Len(sheet)
        /\ \A i \in 1..Len(sheet) :
              sheet[i].v = Get(submissions, sheet[i].k)
        /\ KeysOf(submissions)
              = KeysOf(workAtTry) \cup KeysOf(oldSubmissions)
        /\ savedArg = submissions
        /\ \A k \in KeysOf(submissions) :
              ~IsAccepted(Get(submissions, k)) =>
                  /\ Has(file.data, Join(k))
                  /\ Get(file.data, Join(k)) = Get(submissions, k)

\* a normal run whose merged mapping holds an accepted record, one of this
\* run and one of the done-set among them, and a record that is not accepted
C14_Witness ==
    /\ pc = "ended"
    /\ exit = "normal"
    /\ sheet # << >>
    /\ workAtTry # << >>
    /\ oldSubmissions # << >>
    /\ \E k \in KeysOf(submissions) : ~IsAccepted(Get(submissions, k))

\* no part of a key holds the separator
NoSeparator(d) ==
    \A k \in KeysOf(d) :
        \A j \in 1..Len(k) : \A c \in 1..Len(k[j]) : k[j][c] # "|"

\* C15: a mapping of complete records whose urls and language names hold no
\* '|', once saved by saveAlreadyDone, is read by getAlreadyDone as a
\* done-set with the same keys and the same values and an empty pending-set.
C15_KeyRoundTrip ==
    (pc = "ended" /\ saveCalls = 1 /\ file.state = "ok"
        /\ LensOf(savedArg) \subseteq {6} /\ NoSeparator(savedArg)) =>
        LET done == getAlreadyDone(file)[1]
            todo == getAlreadyDone(file)[2]
        IN  /\ KeysOf(done) = KeysOf(savedArg)
            /\ Len(done) = Len(savedArg)
            /\ \A k \in KeysOf(savedArg) : Get(done, k) = Get(savedArg, k)
            /\ todo = << >>

\* two records were saved, one of them under a key with an empty part
C15_Witness ==
    /\ pc = "ended"
    /\ saveCalls = 1
    /\ file.state = "ok"
    /\ Len(savedArg) = 2
    /\ LensOf(savedArg) = {6}
    /\ NoSeparator(savedArg)
    /\ \E k \in KeysOf(savedArg) : k[1] = << >> \/ k[2] = << >>

\* C16: when the file is there but cannot be parsed, the load ends the run
\* with an error that nothing catches: the run never gets to a page or to a
\* submission, no empty mapping stands in for the file, and nothing is saved.
C16_CorruptStoreFatal ==
    (pc # "idle" /\ fileAtStart.state = "partial") =>
        /\ pc \in {"login", "load", "ended"}
        /\ pc = "ended" => exit \in {"config", "error", "interrupt"}
        /\ pagesRead = << >>
        /\ pageRetries = 0
        /\ examined = << >>
        /\ requested = {}
        /\ fetched = {}
        /\ saveCalls = 0
        /\ file = fileAtStart

\* a run that found an unreadable file and ended with the error of the load
C16_Witness ==
    /\ fileAtStart.state = "partial"
    /\ pc = "ended"
    /\ exit = "error"
    /\ abortAt = "outside"

NoKnownKey ==
    \A p \in 1..Len(upstream) : ~Has(oldSubmissions, upstream[p].key)

Max(a, b) == IF a >= b THEN a ELSE b

\* the pages read so far are 1, 2, ..., none beyond the number page 1 told,
\* and getAllSubmissions has returned only after the last of them
PagesInOrder ==
    (pc \notin {"idle", "login", "load"} /\ NoKnownKey) =>
        /\ \A i \in 1..Len(pagesRead) : pagesRead[i] = i
        /\ Len(pagesRead) <= Max(1, NumPages)
        /\ lastPageIndex = IF pagesRead = << >> THEN 1 ELSE NumPages
        /\ pc = "page" => pageIndex = Len(pagesRead) + 1
        /\ pc = "entry" => pageIndex = Len(pagesRead)
        /\ pc \in {"fetch", "excel", "finally", "dump"} =>
              Len(pagesRead) = Max(1, NumPages)

\* C18: with a done-set that holds none of the keys of the list, the pages
\* are read in the order 1, 2, ..., each once; the number of pages is read
\* on page 1 only; no page beyond it is asked for; getAllSubmissions returns
\* only after the last page; page 1 is read even if the number told is 0.
C18_PageIteration ==
    [][ /\ PagesInOrder'
        /\ (lastPageIndex' # lastPageIndex /\ pc' # "idle") =>
              pc = "page" /\ pageIndex = 1 ]_vars

\* a list of two pages read to its end
C18_Witness ==
    /\ pc = "fetch"
    /\ NoKnownKey
    /\ NumPages = 2
    /\ pagesRead = << 1, 2 >>

Values(d, ks) == { Get(d, k) : k \in ks }

\* C19: from the load to the merge in main the done-set stays what the load
\* returned and shares no key with the working set; the two are merged in
\* the try block only when every record of the working set has its code, and
\* otherwise only by the finally block at the save.
C19_DoneSetIsolation ==
    /\ pc \in {"page", "entry", "fetch", "excel", "finally", "dump"} =>
          oldSubmissions = getAlreadyDone(fileAtStart)[1]
    /\ pc \in {"page", "entry"} =>
          KeysOf(newSubmissions) \cap KeysOf(oldSubmissions) = {}
    /\ (pc = "fetch" \/ (pc = "finally" /\ abortAt = "fetch")) =>
          /\ submissionsAlreadyDone = oldSubmissions
          /\ KeysOf(submissions) \cap KeysOf(oldSubmissions) = {}
    /\ (pc = "excel" \/ (pc = "finally" /\ abortAt # "fetch")) =>
          /\ submissionsAlreadyDone = << >>
          /\ LensOf(submissions) \subseteq {6}
          /\ KeysOf(submissions)
                = KeysOf(workAtTry) \cup KeysOf(oldSubmissions)
    /\ pc = "dump" =>
          /\ KeysOf(savedArg) = KeysOf(workAtTry) \cup KeysOf(oldSubmissions)
          /\ \A k \in KeysOf(oldSubmissions) :
                Get(savedArg, k) = Get(oldSubmissions, k)

\* the abort path with both sets in use, a moment before the save merges them
C19_Witness ==
    /\ pc = "finally"
    /\ abortAt = "fetch"
    /\ oldSubmissions # << >>
    /\ submissions # << >>
    /\ 5 \in LensOf(submissions)

\* C20: when page 1 is there and lists no entry, getAllSubmissions returns
\* without raising: a run that ends with an error after such a page did not
\* get the error from getAllSubmissions.
C20_EmptyFirstPage ==
    (Len(upstream) = 0 /\ pagesRead = << 1 >> /\ pc = "ended"
        /\ exit = "error") => abortAt # "outside"

====
